---- MODULE Spec2Model ----
(***************************************************************************)
(* Model of src/wacc_app.py: the WACC calculator script (CAPM pricing,     *)
(* Hamada beta de-/re-levering, the piecewise cost of debt, the 50-point   *)
(* leverage sweep and the ROIC-vs-WACC diagnostic).                        *)
(*                                                                         *)
(* Numbers.  The script computes with Python floats (IEEE 754 binary64),   *)
(* and so does the model: every +, -, * and / of the script is the exact   *)
(* result rounded to the nearest double, ties to even (FAdd, FSub, FMul,   *)
(* FDiv), so that a comparison of the script (we <= 0.01, spread > 0.02,   *)
(* V == 0, a zero divisor) goes the way it goes in Python.  A double is a  *)
(* record [s |-> sign, m |-> mantissa, e |-> exponent]; the mantissa is a  *)
(* natural held as a little-endian sequence of base-2^15 limbs (53 bits do *)
(* not fit TLC's 32-bit integers):                                         *)
(*   a normal     s = 1 or -1, 2^52 <= m < 2^53, -1074 <= e <= 971,        *)
(*                the value s * m * 2^e                                    *)
(*   a subnormal  s = 1 or -1, 0 < m < 2^52, e = -1074                     *)
(*   0.0          [s |-> 0, m |-> <<>>, e |-> 0]                           *)
(*   -0.0         [s |-> -1, m |-> <<>>, e |-> 0]                          *)
(*   inf, -inf    [s |-> 1 or -1, m |-> <<>>, e |-> 1024]                  *)
(*   nan          [s |-> 1, m |-> <<1>>, e |-> 1024]                       *)
(* A result beyond the largest double is inf, one below the smallest       *)
(* normal is rounded to a subnormal or to a zero of its sign.  Division by *)
(* a zero raises ZeroDivisionError in Python: the callers test for it.     *)
(* x ** 2 goes through the C library's pow, which is not correctly         *)
(* rounded: see float_pow2.                                                *)
(*                                                                         *)
(* The same records with a mantissa of any length are the dyadic numbers   *)
(* (DAdd, DSub, DMul, DCmp: exact, no rounding); the properties use them   *)
(* to measure how far a computed double is from a real-valued formula.     *)
(***************************************************************************)
EXTENDS Integers, Sequences, FiniteSets, TLC

\* ------------------------------------------------------------------------
\* Naturals of arbitrary size: <<>> is 0, limbs are in 0..2^15-1, the last
\* limb (the most significant) is never 0.
\* ------------------------------------------------------------------------
LimbBits == 15
Limb == 32768

RECURSIVE NFromInt(_)
NFromInt(k) == IF k = 0 THEN << >> ELSE <<k % Limb>> \o NFromInt(k \div Limb)

RECURSIVE NTrim(_)
NTrim(a) ==
    IF a = << >> THEN << >>
    ELSE IF a[Len(a)] = 0 THEN NTrim(SubSeq(a, 1, Len(a) - 1))
    ELSE a

NHead(a) == IF a = << >> THEN 0 ELSE Head(a)
NTail(a) == IF a = << >> THEN << >> ELSE Tail(a)

RECURSIVE NAddC(_, _, _)
NAddC(a, b, c) ==
    IF a = << >> /\ b = << >>
    THEN (IF c = 0 THEN << >> ELSE <<c>>)
    ELSE LET x == NHead(a) + NHead(b) + c
         IN  <<x % Limb>> \o NAddC(NTail(a), NTail(b), x \div Limb)

NAdd(a, b) == NAddC(a, b, 0)

\* a - b for a >= b
RECURSIVE NSubB(_, _, _)
NSubB(a, b, br) ==
    IF a = << >> THEN << >>
    ELSE LET x == Head(a) - NHead(b) - br
         IN  IF x < 0
             THEN <<x + Limb>> \o NSubB(Tail(a), NTail(b), 1)
             ELSE <<x>> \o NSubB(Tail(a), NTail(b), 0)

NSub(a, b) == NTrim(NSubB(a, b, 0))

\* -1, 0, 1 as a < b, a = b, a > b
RECURSIVE NCmpFrom(_, _, _)
NCmpFrom(a, b, j) ==
    IF j = 0 THEN 0
    ELSE IF a[j] < b[j] THEN -1
    ELSE IF a[j] > b[j] THEN 1
    ELSE NCmpFrom(a, b, j - 1)

NCmp(a, b) ==
    IF Len(a) < Len(b) THEN -1
    ELSE IF Len(a) > Len(b) THEN 1
    ELSE NCmpFrom(a, b, Len(a))

\* a * k + c for a limb k > 0 and a carry c
RECURSIVE NMulLimb(_, _, _)
NMulLimb(a, k, c) ==
    IF a = << >> THEN (IF c = 0 THEN << >> ELSE <<c>>)
    ELSE LET x == Head(a) * k + c
         IN  <<x % Limb>> \o NMulLimb(Tail(a), k, x \div Limb)

NShift(a) == IF a = << >> THEN << >> ELSE <<0>> \o a

RECURSIVE NMul(_, _)
NMul(a, b) ==
    IF a = << >> \/ b = << >> THEN << >>
    ELSE IF Head(b) = 0 THEN NShift(NMul(a, Tail(b)))
    ELSE NAdd(NMulLimb(a, Head(b), 0), NShift(NMul(a, Tail(b))))

\* 2^b for b in 0 .. LimbBits
Pow2Table == <<1, 2, 4, 8, 16, 32, 64, 128, 256, 512, 1024, 2048, 4096, 8192,
               16384, 32768>>
Pow2(b) == Pow2Table[b + 1]

\* the number of bits of a limb and of a natural
BitLen(x) == IF x = 0 THEN 0 ELSE CHOOSE n \in 1 .. LimbBits : Pow2(n - 1) <= x /\ x < Pow2(n)

NBits(a) == IF a = << >> THEN 0 ELSE LimbBits * (Len(a) - 1) + BitLen(a[Len(a)])

\* a * 2^k
NShl(a, k) ==
    IF a = << >> THEN << >>
    ELSE [j \in 1 .. (k \div LimbBits) |-> 0] \o NMulLimb(a, Pow2(k % LimbBits), 0)

\* x \div p for a power p of 2, p < Limb
NShrBits(x, p) ==
    NTrim([j \in 1 .. Len(x) |->
              (x[j] \div p) + (IF j < Len(x) THEN (x[j + 1] % p) * (Limb \div p)
                               ELSE 0)])

\* a \div 2^k
NShr(a, k) ==
    NShrBits(IF k \div LimbBits >= Len(a) THEN << >>
             ELSE SubSeq(a, (k \div LimbBits) + 1, Len(a)),
             Pow2(k % LimbBits))

\* bit k of a (bit 0 is the lowest)
NBit(a, k) ==
    IF k \div LimbBits >= Len(a) THEN 0
    ELSE (a[(k \div LimbBits) + 1] \div Pow2(k % LimbBits)) % 2

\* the k lowest bits of a are all 0
NLowZero(a, k) ==
    /\ \A j \in 1 .. (k \div LimbBits) : j > Len(a) \/ a[j] = 0
    /\ \/ k \div LimbBits >= Len(a)
       \/ a[(k \div LimbBits) + 1] % Pow2(k % LimbBits) = 0

\* ------------------------------------------------------------------------
\* Dyadic numbers s * m * 2^e: exact arithmetic.  Zero is the number with
\* the mantissa <<>>, whatever its sign field; a zero result is FZero.
\* ------------------------------------------------------------------------
FZero == [s |-> 0, m |-> << >>, e |-> 0]

DNeg(x) == IF x.m = << >> THEN FZero ELSE [x EXCEPT !.s = -x.s]
DAbs(x) == IF x.m = << >> THEN FZero ELSE [x EXCEPT !.s = 1]

\* the signed sum of two signed magnitudes, at the exponent e
DSignedBy(c, s1, m1, s2, m2, e) ==
    IF c = 0 THEN FZero
    ELSE IF c > 0 THEN [s |-> s1, m |-> NSub(m1, m2), e |-> e]
    ELSE [s |-> s2, m |-> NSub(m2, m1), e |-> e]

DSigned(s1, m1, s2, m2, e) ==
    IF s1 = s2 THEN [s |-> s1, m |-> NAdd(m1, m2), e |-> e]
    ELSE DSignedBy(NCmp(m1, m2), s1, m1, s2, m2, e)

DAdd(x, y) ==
    IF x.m = << >> THEN (IF y.m = << >> THEN FZero ELSE y)
    ELSE IF y.m = << >> THEN x
    ELSE IF x.e >= y.e
    THEN DSigned(x.s, NShl(x.m, x.e - y.e), y.s, y.m, y.e)
    ELSE DSigned(x.s, x.m, y.s, NShl(y.m, y.e - x.e), x.e)

DSub(x, y) == DAdd(x, DNeg(y))

DMul(x, y) ==
    IF x.m = << >> \/ y.m = << >> THEN FZero
    ELSE [s |-> x.s * y.s, m |-> NMul(x.m, y.m), e |-> x.e + y.e]

\* the exponent just above the highest bit of x # 0: |x| < 2^DTop(x)
DTop(x) == x.e + NBits(x.m)

\* -1, 0, 1 as x < y, x = y, x > y: by the signs, then by the highest bits,
\* then by the difference
DCmp(x, y) ==
    IF x.m = << >> THEN (IF y.m = << >> THEN 0 ELSE -y.s)
    ELSE IF y.m = << >> \/ x.s # y.s THEN x.s
    ELSE IF DTop(x) > DTop(y) THEN x.s
    ELSE IF DTop(x) < DTop(y) THEN -x.s
    ELSE DSub(x, y).s

DEq(x, y) == DCmp(x, y) = 0
DLt(x, y) == DCmp(x, y) < 0
DLe(x, y) == DCmp(x, y) <= 0

\* ------------------------------------------------------------------------
\* Doubles (IEEE 754 binary64)
\* ------------------------------------------------------------------------
MantissaBits == 53
\* the exponent of the last bit of a subnormal and of the smallest normals
MinExp == -1074
\* the exponent of the last bit of the largest doubles
MaxExp == 971
\* the exponent that marks inf and nan
InfExp == 1024

NegZero == [s |-> -1, m |-> << >>, e |-> 0]
Inf(s) == [s |-> s, m |-> << >>, e |-> InfExp]
NaN == [s |-> 1, m |-> <<1>>, e |-> InfExp]

FIsNaN(x) == x.e = InfExp /\ x.m # << >>
FIsInf(x) == x.e = InfExp /\ x.m = << >>
\* 0.0 or -0.0
FIsZero(x) == x.m = << >> /\ x.e # InfExp
\* -1 for a number with the sign bit set, else 1
FSign(x) == IF x.s < 0 THEN -1 ELSE 1
SignedZero(s) == IF s < 0 THEN NegZero ELSE FZero

\* the double of sign s and mantissa m at the exponent e: inf when it is
\* beyond the largest double
Finite(s, m, e) == IF e > MaxExp THEN Inf(s) ELSE [s |-> s, m |-> m, e |-> e]

\* the mantissa r of k dropped bits: renormalised when it reached 2^53, a
\* signed zero when nothing is left of it
FRoundedTo(x, k, r) ==
    IF r = << >> THEN SignedZero(x.s)
    ELSE IF NBits(r) > MantissaBits THEN Finite(x.s, NShr(r, 1), x.e + k + 1)
    ELSE Finite(x.s, r, x.e + k)

\* x with its k lowest bits dropped: up when they are more than half of the
\* last kept bit, or exactly half and the last kept bit is 1
FRoundBits(x, k, q) ==
    FRoundedTo(x, k,
               IF NBit(x.m, k - 1) = 1 /\ (NBit(x.m, k) = 1 \/ ~NLowZero(x.m, k - 1))
               THEN NAdd(q, <<1>>) ELSE q)

\* The exponent of the last bit the double nearest to a dyadic number of L
\* bits and exponent e keeps: 53 bits, fewer below the smallest normal
\* (the subnormals end at 2^MinExp).
RoundExp(e, L) ==
    IF e + L - MantissaBits < MinExp THEN MinExp ELSE e + L - MantissaBits

\* x rounded to a last bit at the exponent E
FRoundAt(x, E) ==
    IF E <= x.e THEN Finite(x.s, NShl(x.m, x.e - E), E)
    ELSE FRoundBits(x, E - x.e, NShr(x.m, E - x.e))

\* x of L bits as a double
FRoundLen(x, L) == FRoundAt(x, RoundExp(x.e, L))

\* The double nearest to the dyadic number x, ties to the even mantissa:
\* inf beyond the largest double, a subnormal or a zero of x's sign below the
\* smallest normal.
FRound(x) == IF x.m = << >> THEN FZero ELSE FRoundLen(x, NBits(x.m))

\* float(k) for a Python int k
FInt(k) ==
    FRound([s |-> IF k > 0 THEN 1 ELSE IF k < 0 THEN -1 ELSE 0,
            m |-> NFromInt(IF k < 0 THEN -k ELSE k), e |-> 0])

FOne == FInt(1)

FNeg(x) ==
    IF FIsNaN(x) THEN NaN
    ELSE IF FIsZero(x) THEN SignedZero(-FSign(x))
    ELSE [x EXCEPT !.s = -x.s]

\* The highest bits of two doubles this far apart leave the smaller below
\* 1/64 of the last bit of the larger: their sum rounds to the larger.
AbsorbBits == 60

\* x + y: nan from a nan and from inf + -inf; a sum of zeros is -0.0 only
\* when both are; an exact sum of 0 is 0.0.
FAdd(x, y) ==
    IF FIsNaN(x) \/ FIsNaN(y) THEN NaN
    ELSE IF FIsInf(x) THEN (IF FIsInf(y) /\ y.s # x.s THEN NaN ELSE x)
    ELSE IF FIsInf(y) THEN y
    ELSE IF x.m = << >>
    THEN (IF y.m = << >> THEN (IF x.s < 0 /\ y.s < 0 THEN NegZero ELSE FZero) ELSE y)
    ELSE IF y.m = << >> THEN x
    ELSE IF DTop(x) - DTop(y) > AbsorbBits THEN x
    ELSE IF DTop(y) - DTop(x) > AbsorbBits THEN y
    ELSE FRound(DAdd(x, y))

FSub(x, y) == FAdd(x, FNeg(y))

\* x * y: nan from a nan and from inf * 0; the sign is the product of the signs.
FMul(x, y) ==
    IF FIsNaN(x) \/ FIsNaN(y) THEN NaN
    ELSE IF FIsInf(x) \/ FIsInf(y)
    THEN (IF FIsZero(x) \/ FIsZero(y) THEN NaN ELSE Inf(FSign(x) * FSign(y)))
    ELSE IF x.m = << >> \/ y.m = << >> THEN SignedZero(FSign(x) * FSign(y))
    ELSE FRound(DMul(x, y))

\* A guess of r \div d from the two highest limbs of r and the highest limb
\* of d, for r < d * Limb: never below r \div d, and at most 2 above it when
\* the highest limb of d is at least Limb / 2 (Knuth's Algorithm D).
DivGuessOf(r, d) ==
    IF Len(r) < Len(d) THEN 0
    ELSE IF Len(r) = Len(d) THEN r[Len(r)] \div d[Len(d)]
    ELSE (r[Len(r)] * Limb + r[Len(r) - 1]) \div d[Len(d)]

DivGuess(r, d) == IF DivGuessOf(r, d) >= Limb THEN Limb - 1 ELSE DivGuessOf(r, d)

\* the guess q, with its product p = q * d, lowered until p fits in r:
\* <<r \div d, r % d>>
RECURSIVE DivDigit(_, _, _, _)
DivDigit(r, d, q, p) ==
    IF NCmp(p, r) > 0 THEN DivDigit(r, d, q - 1, NSub(p, d))
    ELSE <<q, NSub(r, p)>>

DivFrom(r, d, q) == DivDigit(r, d, q, NTrim(NMulLimb(d, q, 0)))

\* <<r \div d, r % d>> for r < d * Limb
DivStep(r, d) == DivFrom(r, d, DivGuess(r, d))

\* Long division: qr is the quotient limb just found and the remainder left,
\* acc the quotient limbs found before it, c the number of limbs still to
\* find.  The result is the quotient and the last remainder.
RECURSIVE DivLimbs(_, _, _, _)
DivLimbs(qr, d, c, acc) ==
    IF c = 0 THEN [q |-> NTrim(<<qr[1]>> \o acc), r |-> qr[2]]
    ELSE DivLimbs(DivStep(NShift(qr[2]), d), d, c - 1, <<qr[1]>> \o acc)

\* The limbs of the quotient found after its integer part, and the bits that
\* bring the highest limb of a 53-bit mantissa to at least Limb / 2.
QuotientLimbs == 4
NormBits == 4 * LimbBits - MantissaBits

\* floor(n * Limb^QuotientLimbs / d) and the remainder, for n < 2 * d
MantissaQuotient(n, d) == DivLimbs(DivStep(n, d), d, QuotientLimbs, << >>)

\* the quotient bits qr.q followed by one more bit, 1 when a remainder is
\* left, at the exponent e - QuotientLimbs * LimbBits - 1, as a double
FDivFrom(s, e, qr) ==
    FRound([s |-> s,
            m |-> NMulLimb(qr.q, 2, IF qr.r = << >> THEN 0 ELSE 1),
            e |-> e - QuotientLimbs * LimbBits - 1])

\* the mantissa of a finite double brought to 60 bits (a subnormal's has
\* fewer than 53)
DivBits(m) == NShl(m, MantissaBits + NormBits - NBits(m))

\* x / y for finite doubles x and y, neither 0: the quotient of the mantissas
\* to 60 bits and a bit for the remainder, rounded to the nearest double.
FDivFinite(x, y) ==
    FDivFrom(x.s * y.s, (x.e + NBits(x.m)) - (y.e + NBits(y.m)),
             MantissaQuotient(DivBits(x.m), DivBits(y.m)))

\* x / y for y # 0 (Python raises ZeroDivisionError for a float divided by
\* 0.0 or -0.0, whatever is divided): nan from a nan and from inf / inf.
FDiv(x, y) ==
    IF FIsNaN(x) \/ FIsNaN(y) THEN NaN
    ELSE IF FIsInf(x) THEN (IF FIsInf(y) THEN NaN ELSE Inf(FSign(x) * FSign(y)))
    ELSE IF FIsInf(y) \/ x.m = << >> THEN SignedZero(FSign(x) * FSign(y))
    ELSE FDivFinite(x, y)

\* -1, 0, 1 as x < y, x = y, x > y, for x and y not nan; 0.0 equals -0.0
FCmp(x, y) ==
    IF FIsInf(x) THEN (IF FIsInf(y) /\ y.s = x.s THEN 0 ELSE x.s)
    ELSE IF FIsInf(y) THEN -y.s
    ELSE DCmp(x, y)

\* Python's ==, < and <=: False when either side is nan
FEq(x, y) == ~FIsNaN(x) /\ ~FIsNaN(y) /\ FCmp(x, y) = 0
FLt(x, y) == ~FIsNaN(x) /\ ~FIsNaN(y) /\ FCmp(x, y) < 0
FLe(x, y) == ~FIsNaN(x) /\ ~FIsNaN(y) /\ FCmp(x, y) <= 0

\* The double a decimal literal denotes: the one nearest to n/d (0.95 is
\* Lit(95, 100)), d > 0.
Lit(n, d) == IF d = 1 THEN FInt(n) ELSE FDiv(FInt(n), FInt(d))

\* A name the script has not bound yet (no double has this form: the
\* exponent of a zero is 0).
Unset == [s |-> 0, m |-> << >>, e |-> 1]

\* A percentage typed into a number_input, divided by 100 as the script does.
Pct(p) == FDiv(FInt(p), FInt(100))

\* ------------------------------------------------------------------------
\* x ** 2.0.  The ** of a numpy.float64 (the debt weights are elements of
\* linspace's array) calls the C library's pow, which is not correctly
\* rounded: glibc's returns a double within 0.54 ulp of the exact
\* power, so where the exact square lies within 0.04 ulp of the midpoint of
\* two neighbouring doubles either of the two can come back, and which one
\* depends on the library and the processor (x * x, in contrast, is always
\* the nearer one).  The model takes the window a little wider: 1/16 ulp.
\* A square beyond the largest double is inf, one below the smallest
\* subnormal is 0.0.
\* ------------------------------------------------------------------------
\* the double nearest to x^2
pow2_nearest(x) ==
    IF FIsNaN(x) THEN NaN
    ELSE IF FIsInf(x) THEN Inf(1)
    ELSE FRound(DMul(x, x))

\* one unit of the last bit kept when the dyadic number d is rounded
UlpOf(d) == [s |-> 1, m |-> <<1>>, e |-> RoundExp(d.e, NBits(d.m))]

\* err = d - nearest is at least 7/16 ulp away from 0
NearTieBy(err, ulp) ==
    DLe(DMul([s |-> 1, m |-> <<7>>, e |-> 0], ulp),
        DMul([s |-> 1, m |-> <<16>>, e |-> 0], DAbs(err)))

\* the exact square of x is within 1/16 ulp of the midpoint of two doubles
pow2_near_tie(x) ==
    /\ ~FIsNaN(x) /\ ~FIsInf(x) /\ ~FIsZero(x)
    /\ ~FIsInf(pow2_nearest(x))
    /\ NearTieBy(DSub(DMul(x, x), pow2_nearest(x)), UlpOf(DMul(x, x)))

\* the neighbour of the nearest double on the other side of the exact square
FartherOf(nearest, err, ulp) ==
    FRound(DAdd(nearest, IF err.s < 0 THEN DNeg(ulp) ELSE ulp))

pow2_farther(x) ==
    FartherOf(pow2_nearest(x), DSub(DMul(x, x), pow2_nearest(x)), UlpOf(DMul(x, x)))

\* x ** 2 on a build whose pow returns, at a near tie, the farther (far) or
\* the nearer (~far) of the two doubles around the exact square
float_pow2(x, far) ==
    IF far /\ pow2_near_tie(x) THEN pow2_farther(x) ELSE pow2_nearest(x)

\* ------------------------------------------------------------------------
\* The script's functions
\* ------------------------------------------------------------------------
calcular_ke_capm(rf, beta, rm) == FAdd(rf, FMul(beta, FSub(rm, rf)))

\* calcular_wacc without the division by V (a faulty variant)
calcular_wacc_unweighted(D, E, rD, rE, T) ==
    LET V == FAdd(D, E)
    IN  IF FIsZero(V) THEN FZero
        ELSE FAdd(FMul(E, rE), FMul(FMul(D, rD), FSub(FOne, T)))

calcular_wacc(D, E, rD, rE, T) ==
    LET V == FAdd(D, E)
    IN  IF FIsZero(V) THEN FZero
        ELSE LET wD == FDiv(D, V)
                 wE == FDiv(E, V)
             IN  FAdd(FMul(wE, rE), FMul(FMul(wD, rD), FSub(FOne, T)))

\* hamada_relever_beta with (1 - T) applied to the whole factor (a faulty variant)
hamada_relever_beta_tax_on_beta(beta_unl, D, E, T) ==
    IF FIsZero(E) THEN beta_unl
    ELSE FMul(beta_unl, FMul(FSub(FOne, T), FAdd(FOne, FDiv(D, E))))

hamada_relever_beta(beta_unl, D, E, T) ==
    IF FIsZero(E) THEN beta_unl
    ELSE FMul(beta_unl, FAdd(FOne, FMul(FSub(FOne, T), FDiv(D, E))))

\* Line 97, the inline delevering: beta / (1 + (1 - T) * (D / E)).  Python
\* raises ZeroDivisionError when E is 0 (D / E) and when the divisor is 0.
delever_divisor(D, E, T) == FAdd(FOne, FMul(FSub(FOne, T), FDiv(D, E)))

delever_faults(D, E, T) == FIsZero(E) \/ FIsZero(delever_divisor(D, E, T))

\* line 97 without the division (a faulty variant)
delever_beta_skipped(beta, D, E, T) == beta

delever_beta(beta, D, E, T) == FDiv(beta, delever_divisor(D, E, T))

\* the diagnostic with >= 0.02 for its first band (a faulty variant)
diagnostic_strong_at_threshold(spread) ==
    IF FLe(Lit(2, 100), spread) THEN "ValueCreationStrong"
    ELSE IF FLt(FZero, spread) THEN "ValueCreationMarginal"
    ELSE "ValueDestruction"

\* The three branches of the diagnostic (st.success, st.warning, st.error),
\* under the names the specification gives the three classifications.
diagnostic(spread) ==
    IF FLt(Lit(2, 100), spread) THEN "ValueCreationStrong"
    ELSE IF FLt(FZero, spread) THEN "ValueCreationMarginal"
    ELSE "ValueDestruction"

\* ------------------------------------------------------------------------
\* The leverage sweep
\* ------------------------------------------------------------------------
\* np.linspace(0.0, 0.95, 50): SampleCount points, the first at SweepStart,
\* the last at SweepStop, SampleCount - 1 equal steps between them.
SampleCount == 50
SweepStart == FZero
SweepStop == Lit(95, 100)

\* linspace with endpoint=False (a faulty variant)
linspace_without_endpoint(start, stop, num) ==
    [k \in 1 .. num |->
        FAdd(FMul(FInt(k - 1), FDiv(FSub(stop, start), FInt(num))), start)]

\* numpy computes step = (stop - start) / (num - 1), then arange(num) * step
\* + start, and last stores stop itself in the last point.
linspace(start, stop, num) ==
    [k \in 1 .. num |->
        IF k = num THEN stop
        ELSE FAdd(FMul(FInt(k - 1), FDiv(FSub(stop, start), FInt(num - 1))), start)]

Half == Lit(5, 10)
EquityFloor == Lit(1, 100)
FloorRatio == FInt(99)
Hundred == FInt(100)

\* the premium without the square (a faulty variant)
risk_premium_debt_linear(wd, far) ==
    IF FLt(wd, Half) THEN FZero
    ELSE FMul(FSub(wd, Half), Half)

\* Line 122: no premium below 0.5 (the int 0), then (wd - 0.5) ** 2 * 0.5;
\* far tells which double the build's pow returns at a near tie.  A nan wd is
\* not below 0.5.
risk_premium_debt_of(wd, far) ==
    IF FLt(wd, Half) THEN FZero
    ELSE FMul(float_pow2(FSub(wd, Half), far), Half)

\* Line 122 is at a near tie of pow for the debt weight wd.
NearTieWeight(wd) == ~FLt(wd, Half) /\ pow2_near_tie(FSub(wd, Half))

\* Lines 123 and 126, and the names the pass has bound.
SampleCosts(wd, we, de, br, ke, rp, kd, T) ==
    [wd |-> wd, we |-> we, de_ratio |-> de, beta_relevered |-> br,
     new_ke |-> ke, risk_premium_debt |-> rp, new_kd |-> kd,
     new_wacc |-> FAdd(FMul(we, ke), FMul(FMul(wd, kd), FSub(FOne, T)))]

\* Lines 110-123: de_ratio, the relevered beta, the new cost of equity, the
\* premium and the new cost of debt.  de_ratio is assigned and never read:
\* the beta is relevered from wd*100 and we*100.
SamplePriced(wd, we, br, rp, T, rf, rm, rD) ==
    SampleCosts(wd, we,
                IF FLe(we, EquityFloor) THEN FloorRatio ELSE FDiv(wd, we),
                br, FAdd(rf, FMul(br, FSub(rm, rf))), rp, FAdd(rD, rp), T)

\* the floor taken at an equity weight of 0.1, and the beta relevered with
\* the substituted ratio at or below it (a faulty variant)
SampleWeighted_floor_at_tenth(wd, we, beta_unl, T, rf, rm, rD, far) ==
    SamplePriced(wd, we,
                 IF FLe(we, Lit(1, 10))
                 THEN hamada_relever_beta(beta_unl, FloorRatio, FOne, T)
                 ELSE hamada_relever_beta(beta_unl, FMul(wd, Hundred),
                                          FMul(we, Hundred), T),
                 risk_premium_debt_of(wd, far), T, rf, rm, rD)

\* Lines 116-122: the beta is relevered from the amounts wd*100 and we*100,
\* whatever de_ratio is.
SampleWeighted(wd, we, beta_unl, T, rf, rm, rD, far) ==
    SamplePriced(wd, we,
                 hamada_relever_beta(beta_unl, FMul(wd, Hundred), FMul(we, Hundred), T),
                 risk_premium_debt_of(wd, far), T, rf, rm, rD)

\* Lines 108-126: one pass of the loop body for the debt weight wd.
SampleStep(wd, beta_unl, T, rf, rm, rD, far) ==
    SampleWeighted(wd, FSub(FOne, wd), beta_unl, T, rf, rm, rD, far)

\* ------------------------------------------------------------------------
\* The bound of the model and the inputs it draws
\* ------------------------------------------------------------------------
\* the tax rates a run may start with: MaxTaxSteps multiples of 0.16
MaxTaxSteps == 1

\* Debt and equity amounts that put the debt ratio D/(D+E) on the sweep's
\* grid (0, 19/49 and 19/28 are its points 0, 20 and 35 of 0..49, up to the
\* rounding of the grid; point 35 is a near tie of pow at line 122), with
\* the two degenerate structures E = 0 and D + E = 0.
DebtInputs == {FInt(0), FInt(19)}
EquityInputs == {FInt(0), FInt(9), FInt(30)}
\* The tax slider runs from 0.00 to 0.50 in steps of 0.01.
TaxInputs == {Lit(16 * k, 100) : k \in 1 .. MaxTaxSteps}
CostOfDebtInputs == {Pct(8)}
\* Returns and manual rates whose spread is 0.05, 0.02, 0 and 0.05 - 0.03,
\* which is 0.02 in the reals and 0.020000000000000004 in doubles.
RoicInputs == {Pct(2), Pct(5)}
RiskFreeInputs == {Pct(4)}
BetaInputs == {Lit(11, 10)}
MarketReturnInputs == {Pct(10)}
ManualInputs == {Pct(0), Pct(3), Pct(5)}

\* ------------------------------------------------------------------------
\* The state of one run of the script
\* ------------------------------------------------------------------------
VARIABLES
    D_input, E_input, T_input, rD_input, roic_input,   \* sidebar inputs
    usar_capm, rf_input, beta_input, rm_input, rE_manual,
    rE_final, wacc_atual, spread_economico, eva,        \* lines 45-58
    diagnostico,                                        \* branch of lines 78-86
    beta_atual, beta_unlevered, rf_sim, rm_sim,         \* lines 96-105
    leverage_ratios, wacc_simulado, ke_simulado, kd_simulado,
    i,                                                  \* samples processed
    sample,                                             \* the loop's names
    debt_ratio_atual,                                   \* line 137
    peso_divida, peso_equity,                           \* line 149
    pc,                                                 \* where the run is
    fault,                                              \* the exception raised
    delevers,                                           \* executions of line 97
    pow_far,                                            \* the build's pow
    call                                                \* a direct function call

inputs == <<D_input, E_input, T_input, rD_input, roic_input,
            usar_capm, rf_input, beta_input, rm_input, rE_manual>>
current == <<rE_final, wacc_atual, spread_economico, eva>>
sweep_setup == <<beta_atual, rf_sim, rm_sim, leverage_ratios>>
sweep_lists == <<wacc_simulado, ke_simulado, kd_simulado>>
loop_names == <<i, sample>>
summary == <<debt_ratio_atual, peso_divida, peso_equity>>
script == <<pow_far, inputs, current, diagnostico, sweep_setup, beta_unlevered,
            sweep_lists, loop_names, summary, pc, fault, delevers>>
vars == <<script, call>>

NoCall == [fn |-> "none"]

\* The names the loop body binds (wd, we, de_ratio, beta_relevered, new_ke,
\* risk_premium_debt, new_kd, new_wacc), before its first pass.
NoSample ==
    [wd |-> Unset, we |-> Unset, de_ratio |-> Unset, beta_relevered |-> Unset,
     new_ke |-> Unset, risk_premium_debt |-> Unset, new_kd |-> Unset,
     new_wacc |-> Unset]

\* Every name the script binds after reading its inputs is unbound.
Fresh ==
    /\ rE_final = Unset /\ wacc_atual = Unset
    /\ spread_economico = Unset /\ eva = Unset
    /\ diagnostico = "none"
    /\ beta_atual = Unset /\ beta_unlevered = Unset
    /\ rf_sim = Unset /\ rm_sim = Unset
    /\ leverage_ratios = << >>
    /\ wacc_simulado = << >> /\ ke_simulado = << >> /\ kd_simulado = << >>
    /\ i = 0
    /\ sample = NoSample
    /\ debt_ratio_atual = Unset /\ peso_divida = Unset /\ peso_equity = Unset
    /\ fault = "none"
    /\ delevers = 0

\* The debt weights of the sweep.
GridWeights ==
    {linspace(SweepStart, SweepStop, SampleCount)[k] : k \in 1 .. SampleCount}

\* The debt weights of W for which line 122 is at a near tie of pow.
PowNearTies(W) == {w \in W : NearTieWeight(w)}

\* Lines 34-48, 52: the sidebar widgets return the user's inputs.  The CAPM
\* inputs exist only when the checkbox is ticked, the manual rate only when
\* it is not.  pow_far is the build the script runs on: the debt weights at
\* a near tie for which its pow returns the farther double.
Init ==
    /\ pow_far \in SUBSET PowNearTies(GridWeights)
    /\ D_input \in DebtInputs
    /\ E_input \in EquityInputs
    /\ T_input \in TaxInputs
    /\ rD_input \in CostOfDebtInputs
    /\ roic_input \in RoicInputs
    /\ usar_capm \in BOOLEAN
    /\ rf_input \in (IF usar_capm THEN RiskFreeInputs ELSE {Unset})
    /\ beta_input \in (IF usar_capm THEN BetaInputs ELSE {Unset})
    /\ rm_input \in (IF usar_capm THEN MarketReturnInputs ELSE {Unset})
    /\ rE_manual \in (IF usar_capm THEN {Unset} ELSE ManualInputs)
    /\ Fresh
    /\ pc = "cost_of_equity"
    /\ call = NoCall

\* Lines 45-53: the cost of equity, by CAPM or as typed.
CostOfEquity ==
    /\ pc = "cost_of_equity"
    /\ rE_final' = IF usar_capm
                   THEN calcular_ke_capm(rf_input, beta_input, rm_input)
                   ELSE rE_manual
    /\ pc' = "wacc"
    /\ UNCHANGED <<pow_far, inputs, wacc_atual, spread_economico, eva, diagnostico,
                   sweep_setup, beta_unlevered, sweep_lists, loop_names,
                   summary, fault, delevers, call>>

\* Lines 56-58: the current WACC, the spread and the EVA.
CurrentWacc ==
    /\ pc = "wacc"
    /\ wacc_atual' = calcular_wacc(D_input, E_input, rD_input, rE_final, T_input)
    /\ spread_economico' = FSub(roic_input, wacc_atual')
    /\ eva' = FMul(FAdd(D_input, E_input), spread_economico')
    /\ pc' = "tab1"
    /\ UNCHANGED <<pow_far, inputs, rE_final, diagnostico, sweep_setup, beta_unlevered,
                   sweep_lists, loop_names, summary, fault, delevers,
                   call>>

\* Lines 78-86: the diagnostic's branch.
Diagnostic ==
    /\ pc = "tab1"
    /\ diagnostico' = diagnostic(spread_economico)
    /\ pc' = "tab2"
    /\ UNCHANGED <<pow_far, inputs, current, sweep_setup, beta_unlevered, sweep_lists,
                   loop_names, summary, fault, delevers, call>>

\* Lines 96-105: the beta is delevered from the current structure, the grid
\* and the three lists are created.  Line 97 raises ZeroDivisionError when
\* E_input is 0; the script stops there.
Delever ==
    /\ pc = "tab2"
    /\ beta_atual' = IF usar_capm THEN beta_input ELSE FOne
    /\ delevers' = delevers + 1
    /\ IF delever_faults(D_input, E_input, T_input)
       THEN /\ fault' = "ZeroDivisionError"
            /\ pc' = "fault"
            /\ UNCHANGED <<beta_unlevered, rf_sim, rm_sim, leverage_ratios,
                           sweep_lists>>
       ELSE /\ beta_unlevered' =
                  delever_beta(beta_atual', D_input, E_input, T_input)
            /\ leverage_ratios' = linspace(SweepStart, SweepStop, SampleCount)
            /\ wacc_simulado' = << >>
            /\ ke_simulado' = << >>
            /\ kd_simulado' = << >>
            /\ rf_sim' = IF usar_capm THEN rf_input ELSE Lit(4, 100)
            /\ rm_sim' = IF usar_capm THEN rm_input ELSE Lit(10, 100)
            /\ pc' = "loop"
            /\ UNCHANGED fault
    /\ UNCHANGED <<pow_far, inputs, current, diagnostico, loop_names, summary,
                   call>>

\* Lines 107-129: one pass of the loop, for the next debt weight.  Only the
\* WACC and the cost of equity are appended; kd_simulado is left as created.
\* rD is the base cost of debt the pass starts from.
LoopPass(rD) ==
    /\ pc = "loop"
    /\ i < Len(leverage_ratios)
    /\ sample' = SampleStep(leverage_ratios[i + 1], beta_unlevered, T_input,
                            rf_sim, rm_sim, rD,
                            leverage_ratios[i + 1] \in pow_far)
    /\ wacc_simulado' = Append(wacc_simulado, sample'.new_wacc)
    /\ ke_simulado' = Append(ke_simulado, sample'.new_ke)
    /\ i' = i + 1
    /\ UNCHANGED <<pow_far, inputs, current, diagnostico, sweep_setup, kd_simulado,
                   summary, pc, fault, delevers, call>>

\* a pass that leaves the relevered beta in beta_unlevered (a faulty variant)
LoopBodyCompounding ==
    LoopPass(rD_input) /\ beta_unlevered' = sample'.beta_relevered

\* a pass that starts from the cost of debt the pass before it left in new_kd
\* (a faulty variant)
LoopBodyCarrying ==
    LoopPass(IF i = 0 THEN rD_input ELSE sample.new_kd) /\ UNCHANGED beta_unlevered

LoopBody == LoopPass(rD_input) /\ UNCHANGED beta_unlevered

\* Lines 132-143: the chart; line 137 divides by D + E.
MarkCurrent ==
    /\ pc = "loop"
    /\ i = Len(leverage_ratios)
    /\ IF FIsZero(FAdd(D_input, E_input))
       THEN /\ fault' = "ZeroDivisionError"
            /\ pc' = "fault"
            /\ UNCHANGED debt_ratio_atual
       ELSE /\ debt_ratio_atual' = FDiv(D_input, FAdd(D_input, E_input))
            /\ pc' = "tab3"
            /\ UNCHANGED fault
    /\ UNCHANGED <<pow_far, inputs, current, diagnostico, sweep_setup, beta_unlevered,
                   sweep_lists, loop_names, peso_divida, peso_equity, delevers, call>>

\* Lines 145-151: the summary table; line 149 divides by D + E twice.
Summary ==
    /\ pc = "tab3"
    /\ IF FIsZero(FAdd(D_input, E_input))
       THEN /\ fault' = "ZeroDivisionError"
            /\ pc' = "fault"
            /\ UNCHANGED <<peso_divida, peso_equity>>
       ELSE /\ peso_divida' = FDiv(D_input, FAdd(D_input, E_input))
            /\ peso_equity' = FDiv(E_input, FAdd(D_input, E_input))
            /\ pc' = "done"
            /\ UNCHANGED fault
    /\ UNCHANGED <<pow_far, inputs, current, diagnostico, sweep_setup, beta_unlevered,
                   sweep_lists, loop_names, debt_ratio_atual, delevers,
                   call>>

Next ==
    \/ CostOfEquity
    \/ CurrentWacc
    \/ Diagnostic
    \/ Delever
    \/ LoopBody
    \/ MarkCurrent
    \/ Summary

Spec == Init /\ [][Next]_vars

\* ------------------------------------------------------------------------
\* The functions called directly, on arguments of their whole domain, and
\* the loop body on the debt weights of the grid.
\* ------------------------------------------------------------------------
\* With D = -9, E = 9, T = 0 the divisor of line 97 is 0; with D = -50,
\* E = 33, T = 0.34 it is 0 in the reals and 2^-53 in doubles.
FnAmounts == DebtInputs \cup EquityInputs \cup {FInt(-9), FInt(-50), FInt(33)}
FnTaxes == TaxInputs \cup {FZero, Lit(32, 100), Lit(34, 100), FOne}
FnBetas == {Lit(-1, 2), FZero, Lit(11, 10)}
FnRates == {Pct(8), Pct(12)}
\* the tax rates of FnTaxes the slider can return
SliderTaxes == {T \in FnTaxes : FLe(T, Lit(50, 100))}
Scales == {FInt(2), Lit(1, 3), FInt(1000)}

InitFn ==
    /\ pow_far \in SUBSET PowNearTies(GridWeights)
    /\ D_input = Unset /\ E_input = Unset /\ T_input = Unset
    /\ rD_input = Unset /\ roic_input = Unset
    /\ usar_capm = TRUE
    /\ rf_input = Unset /\ beta_input = Unset /\ rm_input = Unset
    /\ rE_manual = Unset
    /\ Fresh
    /\ pc = "idle"
    /\ call = NoCall

ApplyCapm ==
    /\ call = NoCall
    /\ \E rf \in RiskFreeInputs, beta \in FnBetas, rm \in MarketReturnInputs \cup {Pct(2)} :
           /\ call' = [fn |-> "calcular_ke_capm", rf |-> rf, beta |-> beta, rm |-> rm,
                       out |-> calcular_ke_capm(rf, beta, rm)]
           /\ UNCHANGED script

ApplyWacc ==
    /\ call = NoCall
    /\ \E D \in FnAmounts, E \in FnAmounts, rD \in CostOfDebtInputs, rE \in FnRates,
          T \in FnTaxes :
           /\ call' = [fn |-> "calcular_wacc", D |-> D, E |-> E, rD |-> rD, rE |-> rE,
                       T |-> T, out |-> calcular_wacc(D, E, rD, rE, T)]
           /\ UNCHANGED script

\* hamada_relever_beta on a beta of the caller's
ApplyRelever ==
    /\ call = NoCall
    /\ \E beta \in FnBetas, D \in FnAmounts, E \in FnAmounts, T \in FnTaxes :
           /\ call' = [fn |-> "hamada_relever_beta", beta |-> beta, D |-> D, E |-> E,
                       T |-> T, faulted |-> FALSE,
                       out |-> hamada_relever_beta(beta, D, E, T),
                       after |-> "none", orig |-> beta]
           /\ UNCHANGED script

\* line 97's expression on a beta of the caller's; faulted when Python raises
ApplyDelever ==
    /\ call = NoCall
    /\ \E beta \in FnBetas, D \in FnAmounts, E \in FnAmounts, T \in FnTaxes :
           /\ call' = [fn |-> "delever", beta |-> beta, D |-> D, E |-> E, T |-> T,
                       faulted |-> delever_faults(D, E, T),
                       out |-> IF delever_faults(D, E, T) THEN Unset
                               ELSE delever_beta(beta, D, E, T),
                       after |-> "none", orig |-> beta]
           /\ UNCHANGED script

\* the relevered beta delevered with the same structure and tax rate
ThenDelever ==
    /\ call.fn = "hamada_relever_beta"
    /\ call.after = "none"
    /\ call' = [fn |-> "delever", beta |-> call.out, D |-> call.D, E |-> call.E,
                T |-> call.T,
                faulted |-> delever_faults(call.D, call.E, call.T),
                out |-> IF delever_faults(call.D, call.E, call.T) THEN Unset
                        ELSE delever_beta(call.out, call.D, call.E, call.T),
                after |-> "hamada_relever_beta", orig |-> call.orig]
    /\ UNCHANGED script

\* the delevered beta relevered with the same structure and tax rate
ThenRelever ==
    /\ call.fn = "delever"
    /\ call.after = "none"
    /\ ~call.faulted
    /\ call' = [fn |-> "hamada_relever_beta", beta |-> call.out, D |-> call.D,
                E |-> call.E, T |-> call.T, faulted |-> FALSE,
                out |-> hamada_relever_beta(call.out, call.D, call.E, call.T),
                after |-> "delever", orig |-> call.orig]
    /\ UNCHANGED script

\* the loop body (lines 108-126) for a debt weight of the grid, with an
\* unlevered beta and a tax rate that the inputs can give it
ApplySample ==
    /\ call = NoCall
    /\ \E w \in GridWeights, bu \in FnBetas, T \in SliderTaxes,
          rD \in CostOfDebtInputs :
           /\ call' = [fn |-> "sample", wd |-> w, beta_unlevered |-> bu, T |-> T,
                       rf |-> Pct(4), rm |-> Pct(10), rD |-> rD,
                       out |-> SampleStep(w, bu, T, Pct(4), Pct(10), rD,
                                          w \in pow_far)]
           /\ UNCHANGED script

NextFn ==
    \/ ApplyCapm
    \/ ApplyWacc
    \/ ApplyRelever
    \/ ApplyDelever
    \/ ThenDelever
    \/ ThenRelever
    \/ ApplySample

SpecFn == InitFn /\ [][NextFn]_vars

\* ------------------------------------------------------------------------
\* Properties
\* ------------------------------------------------------------------------
FPos(x) == FLt(FZero, x)
FNonNeg(x) == FLe(FZero, x)
InUnit(x) == FLe(FZero, x) /\ FLe(x, FOne)
SweepStarted == pc \in {"loop", "tab3", "done"}
DebtRatio == FDiv(D_input, FAdd(D_input, E_input))
\* the loop body was called directly
Sampled == call.fn = "sample"

\* Two numbers are close when they differ by no more than the roundings of a
\* handful of double operations can amount to: |x - y| <= 2^-40 * (1 + |x| + |y|)
\* (one rounding is 2^-53 of the result).  The difference and the bound are
\* computed exactly.
RoundingSlack == [s |-> 1, m |-> <<1>>, e |-> -40]
Close(x, y) ==
    DLe(DAbs(DSub(x, y)), DMul(RoundingSlack, DAdd(FOne, DAdd(DAbs(x), DAbs(y)))))

\* C1: with debt >= 0, equity >= 0 and a tax rate in [0, 1] a run never raises
\* a fault, and zero total capital yields a current WACC of 0.
C1_NoFault ==
    (FNonNeg(D_input) /\ FNonNeg(E_input) /\ InUnit(T_input)) =>
        /\ fault = "none"
        /\ pc # "fault"
        /\ (pc \in {"tab1", "tab2"} /\ FIsZero(FAdd(D_input, E_input))
               => FIsZero(wacc_atual))

\* The sample just processed has the current debt ratio D/(D+E) as its debt
\* weight (the grid point and the ratio are each rounded), and equity is
\* positive.
C2_AtCurrentRatio ==
    /\ pc = "loop"
    /\ i > 0
    /\ FPos(E_input)
    /\ Close(sample.wd, DebtRatio)

\* C2 as claimed: whenever the sample just processed has the current debt
\* ratio D/(D+E) as its debt weight (equity > 0), in either mode and at any
\* ratio, its WACC equals, up to rounding, the WACC computed directly from the
\* inputs.
C2_SimulatedEqualsDirect ==
    C2_AtCurrentRatio => Close(sample.new_wacc, wacc_atual)

\* The cost of equity the sweep gives the current structure: rE_final in CAPM
\* mode, 0.04 + 1.0 * (0.10 - 0.04) in manual mode (the fallback beta and rates).
C2_SweepBaseKe ==
    IF usar_capm THEN rE_final
    ELSE DAdd(Lit(4, 100), DMul(FOne, DSub(Lit(10, 100), Lit(4, 100))))

\* The sweep's debt risk premium at the current debt ratio.
C2_Premium ==
    IF DLt(DebtRatio, Half) THEN FZero
    ELSE DMul(DMul(DSub(DebtRatio, Half), DSub(DebtRatio, Half)), Half)

\* C2 as amended: in CAPM mode at a debt ratio below 0.5 the sample at the
\* current debt ratio has, up to rounding, the directly computed WACC.  In
\* every case the sample's WACC is, up to rounding, the direct WACC plus
\* we * (ke0 - rE_final) plus wd * premium * (1 - T), where premium is the
\* sweep's debt risk premium at wd (0 below 0.5) and ke0 is the cost of equity
\* the sweep starts from: rE_final in CAPM mode, 0.10 in manual mode.
C2_SimulatedVersusDirect ==
    C2_AtCurrentRatio =>
        /\ Close(sample.new_wacc,
                 DAdd(wacc_atual,
                      DAdd(DMul(sample.we, DSub(C2_SweepBaseKe, rE_final)),
                           DMul(DMul(sample.wd, C2_Premium), DSub(FOne, T_input)))))
        /\ (usar_capm /\ DLt(DebtRatio, Half) => Close(sample.new_wacc, wacc_atual))

\* CAPM mode, debt and tax positive, debt ratio 19/49 on the grid: the sample there has the direct WACC
C2_Witness ==
    /\ C2_AtCurrentRatio
    /\ usar_capm
    /\ FPos(D_input)
    /\ FPos(T_input)
    /\ FLt(DebtRatio, Half)
    /\ Close(sample.new_wacc, wacc_atual)

\* C3: after the sweep the WACC, cost-of-equity and cost-of-debt sequences
\* each hold one entry per sampled debt weight.
C3_CompletePoints ==
    pc \in {"tab3", "done"} =>
        /\ Len(wacc_simulado) = Len(leverage_ratios)
        /\ Len(ke_simulado) = Len(leverage_ratios)
        /\ Len(kd_simulado) = Len(leverage_ratios)

\* C4: the diagnostic is decided by spread = roic - wacc alone and puts it in
\* exactly one band: Strong iff spread > 0.02, Marginal iff 0 < spread <= 0.02,
\* Destruction iff spread <= 0; 0.02 itself is Marginal and 0 is Destruction.
\* The spread is the double the script computes at line 57.
C4_Diagnostic ==
    diagnostico # "none" =>
        /\ FEq(spread_economico, FSub(roic_input, wacc_atual))
        /\ diagnostico \in {"ValueCreationStrong", "ValueCreationMarginal",
                            "ValueDestruction"}
        /\ (diagnostico = "ValueCreationStrong") <=> FLt(Lit(2, 100), spread_economico)
        /\ (diagnostico = "ValueCreationMarginal") <=>
               (FLt(FZero, spread_economico) /\ FLe(spread_economico, Lit(2, 100)))
        /\ (diagnostico = "ValueDestruction") <=> FLe(spread_economico, FZero)
        /\ (FEq(spread_economico, Lit(2, 100)) => diagnostico = "ValueCreationMarginal")
        /\ (FIsZero(spread_economico) => diagnostico = "ValueDestruction")

\* a spread of exactly 0.02 classified Marginal
C4_Witness ==
    /\ diagnostico = "ValueCreationMarginal"
    /\ FEq(spread_economico, Lit(2, 100))
    /\ FPos(roic_input)

\* C5: the cost of debt of a sample is the base rate for wd < 0.5 and at
\* wd = 0.5, is base + (wd - 0.5)^2 * 0.5 (up to rounding) for wd >= 0.5, and
\* is strictly increasing in wd above 0.5 (over the debt weights of the sweep).
C5_CostOfDebt ==
    Sampled =>
        /\ (FLe(call.wd, Half) => FEq(call.out.new_kd, call.rD))
        /\ (FLe(Half, call.wd) =>
               Close(call.out.new_kd,
                     DAdd(call.rD, DMul(DMul(DSub(call.wd, Half), DSub(call.wd, Half)),
                                        Half))))
        /\ \A w \in GridWeights :
               (FLt(Half, call.wd) /\ FLt(call.wd, w)) =>
                   FLt(call.out.new_kd,
                       SampleStep(w, call.beta_unlevered, call.T, call.rf, call.rm,
                                  call.rD, w \in pow_far).new_kd)

\* the loop body at wd = 0.95: the cost of debt is the base plus 0.45^2 * 0.5 = 81/800
C5_Witness ==
    /\ Sampled
    /\ FEq(call.wd, Lit(95, 100))
    /\ FLt(call.rD, call.out.new_kd)
    /\ Close(call.out.new_kd, DAdd(call.rD, Lit(81, 800)))

\* The call's debt is >= 0 and its tax rate is in [0, 1].
C6_InDomain == FNonNeg(call.D) /\ InUnit(call.T)

\* C6: for debt >= 0, equity > 0 and a tax rate in [0, 1], relevering a beta
\* and delevering the result with the same structure returns the beta (up to
\* rounding), and so does delevering then relevering; at equity 0 relevering
\* returns its input itself.
C6_RoundTrip ==
    /\ (call.fn = "delever" /\ call.after = "hamada_relever_beta"
            /\ C6_InDomain /\ FPos(call.E))
           => (~call.faulted /\ Close(call.out, call.orig))
    /\ (call.fn = "hamada_relever_beta" /\ call.after = "delever"
            /\ C6_InDomain /\ FPos(call.E))
           => Close(call.out, call.orig)
    /\ (call.fn = "hamada_relever_beta" /\ FIsZero(call.E))
           => call.out = call.beta

\* a positive beta relevered (to a different value) and delevered back to itself
C6_Witness ==
    /\ call.fn = "delever"
    /\ call.after = "hamada_relever_beta"
    /\ FPos(call.D) /\ FPos(call.E)
    /\ FPos(call.T) /\ FLt(call.T, FOne)
    /\ FPos(call.orig)
    /\ ~Close(call.beta, call.orig)
    /\ Close(call.out, call.orig)

\* C7: for D, E >= 0 with D + E > 0, calcular_wacc(k*D, k*E, ...) equals
\* calcular_wacc(D, E, ...) for every positive k, and the loop's WACC, built
\* from the weights wd and 1 - wd, is calcular_wacc of any amounts in that
\* proportion (each up to rounding).
C7_ScaleInvariant ==
    /\ (call.fn = "calcular_wacc" /\ FNonNeg(call.D) /\ FNonNeg(call.E)
            /\ FPos(FAdd(call.D, call.E)))
           => \A k \in Scales :
                  Close(calcular_wacc(FMul(k, call.D), FMul(k, call.E), call.rD,
                                      call.rE, call.T),
                        call.out)
    /\ Sampled
           => \A k \in Scales \cup {Hundred} :
                  Close(calcular_wacc(FMul(k, call.wd), FMul(k, call.out.we),
                                      call.out.new_kd, call.out.new_ke, call.T),
                        call.out.new_wacc)

\* a WACC of positive debt and equity that is unchanged by the scale 1000
C7_Witness ==
    /\ call.fn = "calcular_wacc"
    /\ FPos(call.D) /\ FPos(call.E)
    /\ FPos(call.T) /\ FLt(call.T, FOne)
    /\ Close(calcular_wacc(FMul(FInt(1000), call.D), FMul(FInt(1000), call.E),
                           call.rD, call.rE, call.T),
             call.out)
    /\ FPos(call.out)

\* Before the sweep line 97 has not run; from the sweep on it has run once, the
\* unlevered beta is the current beta delevered with the user's structure, and
\* the sample just processed relevered that value.
C8_State ==
    /\ pc \in {"cost_of_equity", "wacc", "tab1", "tab2"} => (delevers = 0 /\ i = 0)
    /\ SweepStarted =>
           /\ delevers = 1
           /\ beta_unlevered = delever_beta(beta_atual, D_input, E_input, T_input)
           /\ i > 0 =>
                  sample.beta_relevered =
                      hamada_relever_beta(
                          delever_beta(beta_atual, D_input, E_input, T_input),
                          FMul(sample.wd, Hundred), FMul(sample.we, Hundred),
                          T_input)

\* No step taken during the sweep changes the unlevered beta, the count of
\* deleverings or the current structure.
C8_Step ==
    pc = "loop" =>
        /\ beta_unlevered' = beta_unlevered
        /\ delevers' = delevers
        /\ <<D_input, E_input, T_input>>' = <<D_input, E_input, T_input>>

\* C8: line 97 runs exactly once per run, before the first sample; from then
\* on the unlevered beta is the current beta delevered with the user's debt,
\* equity and tax rate, every sample relevers that value, and no pass of the
\* loop changes the unlevered beta or the current structure.
C8_DeleveredOnce == [](C8_State) /\ [][C8_Step]_vars

\* the end of a sweep that delevered once and relevered the same unlevered beta
C8_Witness ==
    /\ pc = "loop"
    /\ i = SampleCount
    /\ delevers = 1
    /\ FPos(D_input)
    /\ FPos(T_input)
    /\ ~FEq(beta_unlevered, beta_atual)
    /\ ~FEq(sample.beta_relevered, beta_unlevered)

\* SampleCount debt weights from 0.0 to 0.95, all below 1.0, strictly
\* ascending and evenly spaced (up to the rounding of each point).
C9_GridShape ==
    /\ Len(leverage_ratios) = SampleCount
    /\ leverage_ratios[1] = FZero
    /\ leverage_ratios[SampleCount] = Lit(95, 100)
    /\ \A k \in 1 .. SampleCount : FLt(leverage_ratios[k], FOne)
    /\ \A k \in 1 .. SampleCount - 1 :
           /\ FLt(leverage_ratios[k], leverage_ratios[k + 1])
           /\ Close(DSub(leverage_ratios[k + 1], leverage_ratios[k]),
                    DSub(leverage_ratios[2], leverage_ratios[1]))

\* The debt weights that line 99 makes, in order.
C9_Grid == linspace(SweepStart, SweepStop, SampleCount)

\* What the inputs alone make of point k of the sweep: the loop body for the
\* k-th debt weight of linspace, with the beta that line 96 takes from the
\* inputs delevered by line 97, and the rates of lines 104-105.
C9_EntryFromInputs(k) ==
    SampleStep(C9_Grid[k],
               delever_beta(IF usar_capm THEN beta_input ELSE FOne,
                            D_input, E_input, T_input),
               T_input,
               IF usar_capm THEN rf_input ELSE Lit(4, 100),
               IF usar_capm THEN rm_input ELSE Lit(10, 100),
               rD_input,
               C9_Grid[k] \in pow_far)

C9_Emitted(entry) == <<entry.new_wacc, entry.new_ke>>

\* Entry k of both sequences is what the inputs alone make of point k.
C9_EntryDetermined(k) ==
    <<wacc_simulado[k], ke_simulado[k]>> = C9_Emitted(C9_EntryFromInputs(k))

\* C9: the sweep has exactly SampleCount debt weights, evenly spaced, strictly
\* ascending, from 0.0 to 0.95 (all below 1.0); the WACC and cost-of-equity
\* entries are appended in that order, one per weight; and in the finished
\* run every entry is a function of the inputs and of its own position alone
\* (on one build, pow_far): nothing that a pass of the loop leaves behind
\* enters a later entry, so that a sweep of the same inputs yields the same
\* sequences.
C9_Sweep ==
    /\ SweepStarted =>
           /\ Len(leverage_ratios) = SampleCount
           /\ (i = 0 \/ pc = "done") => C9_GridShape
           /\ Len(wacc_simulado) = i
           /\ Len(ke_simulado) = i
           /\ i > 0 =>
                  /\ sample.wd = leverage_ratios[i]
                  /\ wacc_simulado[i] = sample.new_wacc
                  /\ ke_simulado[i] = sample.new_ke
    /\ pc \in {"tab3", "done"} => i = SampleCount
    /\ pc = "done" => \A k \in 1 .. SampleCount : C9_EntryDetermined(k)

\* a finished run whose 50-point curve, with debt and a tax rate, is the one
\* the inputs determine, and differs from point to point
C9_Witness ==
    /\ pc = "done"
    /\ Len(wacc_simulado) = SampleCount
    /\ Len(ke_simulado) = SampleCount
    /\ sample.wd = Lit(95, 100)
    /\ FPos(D_input)
    /\ FPos(T_input)
    /\ C9_EntryDetermined(SampleCount)
    /\ wacc_simulado[SampleCount] # wacc_simulado[SampleCount - 1]

\* The debt/equity ratio the claim has the loop body use for the debt weight w.
C10_RatioUsed(w) ==
    IF FLe(FSub(FOne, w), EquityFloor) THEN FloorRatio
    ELSE FDiv(w, FSub(FOne, w))

====
